---- MODULE Spec2Model ----
(***************************************************************************)
(* ARM7 toolchain: the two-pass assembler (assembler.py), the linker       *)
(* (linker.py) and the disassembler (disassembler.py).                     *)
(*                                                                         *)
(* Text is a sequence of one-character strings, so that tokenising,        *)
(* stripping, suffix matching and number parsing are computed the way the  *)
(* Python code computes them.                                              *)
(*                                                                         *)
(* Python integers are unbounded while TLC's are 32-bit and signed, and an *)
(* ARM word with condition AL has bit 31 set.  A Python integer v that may *)
(* leave the 31-bit range is therefore held as two limbs <<hi, lo>> with   *)
(* v = hi * 2^16 + lo and 0 <= lo < 2^16 (hi carries the sign: floor       *)
(* division, as in Python's two's-complement view of negative integers).   *)
(***************************************************************************)
EXTENDS Integers, Sequences, FiniteSets, TLC

VARIABLES
    input,          \* the structured description source_lines was written from
    tool,           \* which program runs: "asm" or "link"
    pc,             \* position of the running program
    source_lines,   \* Assembler.assemble's argument
    line_no,        \* index of the next source line (pass 1) / instruction (pass 2)
    address,        \* pass 1's local variable address
    symbols,        \* SymbolTable.symbols: label (its characters) -> address
    instructions,   \* Assembler.instructions: <<address, line>> records
    machine_code,   \* Assembler.machine_code
    errors,         \* Assembler.errors
    listing,        \* text of disassemble_instruction for each word of machine_code
    reassembled,    \* assemble_line applied to each line of listing
    memory_layout,  \* Linker.memory_layout: section name -> base address
    object_files,   \* Linker.object_files, as parse_object_file built them
    sections,       \* Linker.sections: name -> Section
    global_symbols, \* Linker.global_symbols: key -> Symbol
    console,        \* the lines the linker has printed
    obj_no,         \* index of the object the running loop is at
    rel_no          \* index of the relocation apply_relocations is at

asm_vars == <<source_lines, line_no, address, symbols, instructions,
              machine_code, errors, listing, reassembled>>

link_vars == <<memory_layout, object_files, sections, global_symbols, console,
               obj_no, rel_no>>

vars == <<input, tool, pc, asm_vars, link_vars>>

----------------------------------------------------------------------------
(* Python integers *)

Limb == 2^16

RECURSIVE OrI(_, _)
\* a | b on Python integers that fit a TLC integer
OrI(a, b) ==
    IF a = 0 THEN b
    ELSE IF b = 0 THEN a
    ELSE IF a = -1 \/ b = -1 THEN -1
    ELSE (IF a % 2 = 1 \/ b % 2 = 1 THEN 1 ELSE 0) + 2 * OrI(a \div 2, b \div 2)

RECURSIVE AndI(_, _)
\* a & b on Python integers that fit a TLC integer
AndI(a, b) ==
    IF a = 0 \/ b = 0 THEN 0
    ELSE IF a = -1 THEN b
    ELSE IF b = -1 THEN a
    ELSE (IF a % 2 = 1 /\ b % 2 = 1 THEN 1 ELSE 0) + 2 * AndI(a \div 2, b \div 2)

\* the limbs of a small integer
ToBig(n) == <<n \div Limb, n % Limb>>

\* the limbs hi, lo written out (a literal such as 0xE3A00005 is Big(58272, 5))
Big(hi, lo) == <<hi, lo>>

\* the small integer a two-limb value denotes, when it fits
Small(x) == x[1] * Limb + x[2]

BigOr(x, y) == <<OrI(x[1], y[1]), OrI(x[2], y[2])>>

BigAnd(x, y) == <<AndI(x[1], y[1]), AndI(x[2], y[2])>>

RECURSIVE BigShl(_, _)
\* x << n
BigShl(x, n) ==
    IF n >= 16 THEN BigShl(<<x[1] * Limb + x[2], 0>>, n - 16)
    ELSE <<x[1] * 2^n + x[2] \div 2^(16 - n), (x[2] % 2^(16 - n)) * 2^n>>

\* x >> n (arithmetic, as Python's)
BigShr(x, n) ==
    IF n <= 16
    THEN <<x[1] \div 2^n, (x[1] % 2^n) * 2^(16 - n) + x[2] \div 2^n>>
    ELSE ToBig(x[1] \div 2^(n - 16))

BigAdd(x, y) ==
    <<x[1] + y[1] + (x[2] + y[2]) \div Limb, (x[2] + y[2]) % Limb>>

----------------------------------------------------------------------------
(* Python strings *)

LowerChars == <<"a","b","c","d","e","f","g","h","i","j","k","l","m",
                "n","o","p","q","r","s","t","u","v","w","x","y","z">>

UpperChars == <<"A","B","C","D","E","F","G","H","I","J","K","L","M",
                "N","O","P","Q","R","S","T","U","V","W","X","Y","Z">>

DigitChars == <<"0","1","2","3","4","5","6","7","8","9">>

HexChars == <<"0","1","2","3","4","5","6","7","8","9",
              "A","B","C","D","E","F">>

\* str.upper on one character
UpperOf(c) ==
    IF \E i \in 1..26 : LowerChars[i] = c
    THEN UpperChars[CHOOSE i \in 1..26 : LowerChars[i] = c]
    ELSE c

\* str.upper
Upper(s) == [i \in 1..Len(s) |-> UpperOf(s[i])]

\* str.isspace on one character
IsSpace(c) == c \in {" ", "\t", "\n", "\r"}

IsDigit(c) == \E i \in 1..10 : DigitChars[i] = c

\* value of a hexadecimal digit (either case), -1 for any other character
HexVal(c) ==
    IF \E i \in 1..16 : HexChars[i] = UpperOf(c)
    THEN (CHOOSE i \in 1..16 : HexChars[i] = UpperOf(c)) - 1
    ELSE -1

RECURSIVE LStrip(_)
LStrip(s) == IF s # <<>> /\ IsSpace(Head(s)) THEN LStrip(Tail(s)) ELSE s

RECURSIVE RStrip(_)
RStrip(s) ==
    IF s # <<>> /\ IsSpace(s[Len(s)]) THEN RStrip(SubSeq(s, 1, Len(s) - 1)) ELSE s

\* str.strip
Strip(s) == LStrip(RStrip(s))

\* str.startswith
StartsWith(s, p) == Len(s) >= Len(p) /\ SubSeq(s, 1, Len(p)) = p

\* str.endswith
EndsWith(s, p) == Len(s) >= Len(p) /\ SubSeq(s, Len(s) - Len(p) + 1, Len(s)) = p

\* c in s
Contains(s, c) == \E i \in 1..Len(s) : s[i] = c

\* s.index(c) + 1, for c in s
IndexOf(s, c) == CHOOSE i \in 1..Len(s) : s[i] = c /\ \A j \in 1..(i - 1) : s[j] # c

\* str.replace(c, '')
Without(s, c) == SelectSeq(s, LAMBDA x : x # c)

RECURSIVE Join(_)
\* the characters as one string value, for use as a dictionary key or a name
Join(s) == IF s = <<>> THEN "" ELSE Head(s) \o Join(Tail(s))

RECURSIVE SplitOn(_, _, _)
\* the pieces of s between separator characters, cur is the piece so far
SplitOn(s, sep, cur) ==
    IF s = <<>> THEN <<cur>>
    ELSE IF Head(s) \in sep
         THEN <<cur>> \o SplitOn(Tail(s), sep, <<>>)
         ELSE SplitOn(Tail(s), sep, Append(cur, Head(s)))

RECURSIVE Squeeze(_, _)
\* s with every run of separator characters replaced by one ","
Squeeze(s, sep) ==
    IF s = <<>> THEN <<>>
    ELSE IF Head(s) \in sep
         THEN IF Len(s) > 1 /\ s[2] \in sep
              THEN Squeeze(Tail(s), sep)
              ELSE <<",">> \o Squeeze(Tail(s), sep)
         ELSE <<Head(s)>> \o Squeeze(Tail(s), sep)

\* re.split(r'[,\s]+', s)
SplitTokens(s) == SplitOn(Squeeze(s, {",", " ", "\t", "\n", "\r"}), {","}, <<>>)

\* str.split(',')
SplitComma(s) == SplitOn(s, {","}, <<>>)

RECURSIVE JoinSpace(_)
\* ' '.join(list)
JoinSpace(l) ==
    IF l = <<>> THEN <<>>
    ELSE IF Len(l) = 1 THEN l[1]
    ELSE l[1] \o <<" ">> \o JoinSpace(Tail(l))

\* the outcome of a call that may raise: ok = FALSE when it raised
Ret(v) == [ok |-> TRUE, val |-> v]

Raise == [ok |-> FALSE, val |-> 0]

RECURSIVE DigitsValue(_, _, _), DigitsStep(_, _, _, _)
\* the value of a run of digits in the base, acc so far; -1 when a
\* character is no digit of the base
DigitsValue(s, base, acc) ==
    IF s = <<>> THEN acc ELSE DigitsStep(Tail(s), HexVal(Head(s)), base, acc)

\* DigitsValue's step for a character of digit value d
DigitsStep(rest, d, base, acc) ==
    IF d < 0 \/ d >= base THEN -1 ELSE DigitsValue(rest, base, acc * base + d)

\* int()'s result from the value DigitsValue found and the sign
IntResult(v, neg) == IF v < 0 THEN Raise ELSE Ret(IF neg THEN -v ELSE v)

\* int() on the digits w that follow sign and prefix
IntDigits(w, base, neg) ==
    IF w = <<>> THEN Raise ELSE IntResult(DigitsValue(w, base, 0), neg)

\* int() on the text u that follows the sign
IntUnsigned(u, base, prefix, neg) ==
    IntDigits(IF prefix # <<>> /\ StartsWith(Upper(u), Upper(prefix))
              THEN SubSeq(u, Len(prefix) + 1, Len(u)) ELSE u,
              base, neg)

\* int() on the stripped text t
IntSigned(t, base, prefix) ==
    IF t # <<>> /\ Head(t) \in {"-", "+"}
    THEN IntUnsigned(Tail(t), base, prefix, Head(t) = "-")
    ELSE IntUnsigned(t, base, prefix, FALSE)

\* int(s, base) for a literal with an optional sign and, when prefix is
\* non-empty, that prefix in either case ("0x", "0b"); ValueError otherwise
PyInt(s, base, prefix) == IntSigned(Strip(s), base, prefix)

----------------------------------------------------------------------------
(* assembler.py: ARM7Instruction *)

COND_AL == 14

\* Rn and Rd in each other's field
encode_data_processing_swapped(cond, opcode, s, rn, rd, operand2) ==
    BigOr(BigOr(BigOr(BigOr(BigShl(ToBig(cond), 28), BigShl(ToBig(opcode), 21)),
                      BigShl(ToBig(s), 20)),
                BigOr(BigShl(ToBig(rd), 16), BigShl(ToBig(rn), 12))),
          ToBig(operand2))

\* encode_data_processing; cond, opcode, s, rn, rd are small, operand2 is any
\* Python integer
encode_data_processing(cond, opcode, s, rn, rd, operand2) ==
    LET instr == BigOr(BigOr(BigOr(BigShl(ToBig(cond), 28), BigShl(ToBig(0), 26)),
                             BigShl(ToBig(opcode), 21)),
                       BigShl(ToBig(s), 20))
    IN  BigOr(BigOr(BigOr(instr, BigShl(ToBig(rn), 16)), BigShl(ToBig(rd), 12)),
              ToBig(operand2))

\* encode_branch
encode_branch(cond, link, offset) ==
    LET offset_24 == AndI(offset, 2^24 - 1)
    IN  BigOr(BigOr(BigOr(BigShl(ToBig(cond), 28), BigShl(ToBig(5), 25)),
                    BigShl(ToBig(link), 24)),
              ToBig(offset_24))

\* encode_load_store
encode_load_store(cond, p, u, b, w, l, rn, rd, offset) ==
    LET i1 == BigOr(BigOr(BigOr(BigShl(ToBig(cond), 28), BigShl(ToBig(1), 26)),
                          BigShl(ToBig(p), 24)),
                    BigShl(ToBig(u), 23))
        i2 == BigOr(BigOr(BigOr(i1, BigShl(ToBig(b), 22)), BigShl(ToBig(w), 21)),
                    BigShl(ToBig(l), 20))
    IN  BigOr(BigOr(BigOr(i2, BigShl(ToBig(rn), 16)), BigShl(ToBig(rd), 12)),
              ToBig(AndI(offset, 2^12 - 1)))

----------------------------------------------------------------------------
(* assembler.py: Assembler *)

\* the largest register number parse_register accepts
MaxReg == 15

\* parse_register's reg_map
reg_map == [SP |-> 13, LR |-> 14, PC |-> 15, R13 |-> 13, R14 |-> 14, R15 |-> 15]

RECURSIVE LeadingDigits(_)
\* the digits re.match's (\d+) takes from the front of s
LeadingDigits(s) ==
    IF s # <<>> /\ IsDigit(Head(s)) THEN <<Head(s)>> \o LeadingDigits(Tail(s)) ELSE <<>>

\* parse_register's range test on int(match.group(1))
register_number(reg_num) == IF reg_num <= MaxReg THEN Ret(reg_num) ELSE Raise

\* parse_register after the reg_map lookup failed: re.match(r'R(\d+)', r)
register_match(d) == IF d = <<>> THEN Raise ELSE register_number(DigitsValue(d, 10, 0))

\* parse_register on the uppercased, stripped text r
register_named(r, name) ==
    IF name \in DOMAIN reg_map THEN Ret(reg_map[name])
    ELSE IF r # <<>> /\ Head(r) = "R" THEN register_match(LeadingDigits(Tail(r)))
    ELSE Raise

\* parse_register: the register number, or ValueError
parse_register(reg_str) == register_named(Strip(Upper(reg_str)), Join(Strip(Upper(reg_str))))

\* parse_immediate on the text u that follows the '#'
immediate_literal(u) ==
    IF StartsWith(u, <<"0", "x">>) \/ StartsWith(u, <<"0", "X">>)
    THEN PyInt(u, 16, <<"0", "x">>)
    ELSE IF StartsWith(u, <<"0", "b">>) \/ StartsWith(u, <<"0", "B">>)
    THEN PyInt(u, 2, <<"0", "b">>)
    ELSE PyInt(u, 10, <<>>)

\* parse_immediate on the stripped text t
immediate_stripped(t) == immediate_literal(IF StartsWith(t, <<"#">>) THEN Tail(t) ELSE t)

\* parse_immediate: the value of the literal, or ValueError
parse_immediate(imm_str) == immediate_stripped(Strip(imm_str))

\* parse_condition's cond_map, in the order the dictionary is walked
cond_map == << <<"EQ", 0>>, <<"NE", 1>>, <<"CS", 2>>, <<"CC", 3>>, <<"MI", 4>>,
               <<"PL", 5>>, <<"VS", 6>>, <<"VC", 7>>, <<"HI", 8>>, <<"LS", 9>>,
               <<"GE", 10>>, <<"LT", 11>>, <<"GT", 12>>, <<"LE", 13>> >>

\* parse_condition given the last two characters of the uppercased
\* mnemonic: the first entry of cond_map that matches them is cut off
condition_of(mnemonic, tail) ==
    IF \E i \in 1..Len(cond_map) : cond_map[i][1] = tail
    THEN <<SubSeq(mnemonic, 1, Len(mnemonic) - 2),
           cond_map[CHOOSE i \in 1..Len(cond_map) : cond_map[i][1] = tail][2]>>
    ELSE <<mnemonic, COND_AL>>

\* parse_condition: <<base, code>>
parse_condition(mnemonic) ==
    condition_of(mnemonic,
                 IF Len(mnemonic) >= 2
                 THEN Join(Upper(SubSeq(mnemonic, Len(mnemonic) - 1, Len(mnemonic))))
                 ELSE "")

\* assemble_data_processing's opcode_map
opcode_map == [AND |-> 0, EOR |-> 1, SUB |-> 2, RSB |-> 3, ADD |-> 4, ADC |-> 5,
               SBC |-> 6, RSC |-> 7, TST |-> 8, TEQ |-> 9, CMP |-> 10, CMN |-> 11,
               ORR |-> 12, MOV |-> 13, BIC |-> 14, MVN |-> 15]

\* str.isdigit
IsDigitStr(s) == s # <<>> /\ \A i \in 1..Len(s) : IsDigit(s[i])

\* the operand2 of a data-processing line: an immediate when the operand
\* starts with '#' or is all digits, else a register number; raises
\* IndexError when the operand is missing
parse_operand2(operands, k) ==
    IF Len(operands) < k THEN Raise
    ELSE IF StartsWith(operands[k], <<"#">>) \/ IsDigitStr(operands[k])
    THEN parse_immediate(operands[k])
    ELSE parse_register(operands[k])

\* operands[k] parsed as a register; IndexError when it is missing
register_at(operands, k) ==
    IF Len(operands) < k THEN Raise ELSE parse_register(operands[k])

\* the word of a data-processing line from its parsed operands, or the
\* exception one of the parses raised
encode_parsed(cond, opcode, s, rn, rd, operand2) ==
    IF ~rn.ok \/ ~rd.ok \/ ~operand2.ok THEN Raise
    ELSE Ret(encode_data_processing(cond, opcode, s, rn.val, rd.val, operand2.val))

\* assemble_data_processing
assemble_data_processing(mnemonic, operands, cond, s) ==
    IF mnemonic \in {"MOV", "MVN"}
    THEN encode_parsed(cond, opcode_map[mnemonic], s, Ret(0), register_at(operands, 1),
                       parse_operand2(operands, 2))
    ELSE IF mnemonic \in {"CMP", "CMN", "TST", "TEQ"}
    THEN encode_parsed(cond, opcode_map[mnemonic], 1, register_at(operands, 1), Ret(0),
                       parse_operand2(operands, 2))
    ELSE encode_parsed(cond, opcode_map[mnemonic], s, register_at(operands, 2),
                       register_at(operands, 1), parse_operand2(operands, 3))

\* the offset taken from the branch's own address, not from PC + 8
branch_offset_from_branch(target_addr, current_addr) ==
    AndI((target_addr - current_addr) \div 4, 2^24 - 1)

\* the branch offset field: ((target_addr - current_addr - 8) >> 2) & 0xFFFFFF
branch_offset(target_addr, current_addr) ==
    AndI((target_addr - current_addr - 8) \div 4, 2^24 - 1)

\* assemble_branch, table being the symbol table
assemble_branch(mnemonic, operands, cond, current_addr, table) ==
    LET link == IF mnemonic = "BL" THEN 1 ELSE 0
    IN  IF Len(operands) < 1 THEN Raise
        ELSE LET target_label == operands[1]
                 offset == IF target_label \notin DOMAIN table THEN 0
                           ELSE branch_offset(table[target_label], current_addr)
             IN  Ret(encode_branch(cond, link, offset))

\* the word of a load/store line from its parsed operands
encode_memory(cond, b, l, rn, rd, offset) ==
    IF ~rd.ok \/ ~rn.ok \/ ~offset.ok THEN Raise
    ELSE Ret(encode_load_store(cond, 1, 1, b, 0, l, rn.val, rd.val, offset.val))

\* assemble_load_store once addr_str is split at its commas
load_store_parts(mnemonic, rd, addr_parts, cond) ==
    encode_memory(cond,
                  IF mnemonic \in {"LDRB", "STRB"} THEN 1 ELSE 0,
                  IF mnemonic \in {"LDR", "LDRB"} THEN 1 ELSE 0,
                  parse_register(addr_parts[1]), rd,
                  IF Len(addr_parts) = 1 THEN Ret(0) ELSE parse_immediate(addr_parts[2]))

\* assemble_load_store
assemble_load_store(mnemonic, operands, cond) ==
    IF operands = <<>> THEN Raise
    ELSE load_store_parts(mnemonic, parse_register(operands[1]),
                          SplitComma(Without(Without(JoinSpace(Tail(operands)), "["), "]")),
                          cond)

\* line[:line.index(';')] when ';' is in the line
strip_comment(line) ==
    IF Contains(line, ";") THEN SubSeq(line, 1, IndexOf(line, ";") - 1) ELSE line

\* the mnemonics assemble_line knows
KnownMnemonics == DOMAIN opcode_map \union {"B", "BL", "LDR", "STR", "LDRB", "STRB"}

\* what assemble_line returns and appends to self.errors, from the outcome
\* r of the group's method
line_result(text, r) ==
    IF r.ok THEN [none |-> FALSE, word |-> r.val, errs |-> <<>>]
    ELSE [none |-> FALSE, word |-> Big(0, 0),
          errs |-> <<"Error assembling '" \o Join(text) \o "'">>]

\* assemble_line's dispatch on the base mnemonic
assemble_base(text, mnemonic, base, operands, cond, s_flag, addr, table) ==
    IF base \in DOMAIN opcode_map
    THEN line_result(text, assemble_data_processing(base, operands, cond, s_flag))
    ELSE IF base \in {"B", "BL"}
    THEN line_result(text, assemble_branch(base, operands, cond, addr, table))
    ELSE IF base \in {"LDR", "STR", "LDRB", "STRB"}
    THEN line_result(text, assemble_load_store(base, operands, cond))
    ELSE [none |-> FALSE, word |-> Big(0, 0),
          errs |-> <<"Unknown instruction: " \o Join(mnemonic)>>]

\* assemble_line's test for the S suffix on what parse_condition left
assemble_suffix(text, mnemonic, base_mnemonic, cond, operands, addr, table) ==
    IF EndsWith(base_mnemonic, <<"S">>)
    THEN assemble_base(text, mnemonic, Join(SubSeq(base_mnemonic, 1, Len(base_mnemonic) - 1)),
                       operands, cond, 1, addr, table)
    ELSE assemble_base(text, mnemonic, Join(base_mnemonic), operands, cond, 0, addr, table)

\* assemble_line from the uppercased mnemonic on
assemble_mnemonic(text, mnemonic, pcnd, operands, addr, table) ==
    assemble_suffix(text, mnemonic, pcnd[1], pcnd[2], operands, addr, table)

\* assemble_line from the tokens on
assemble_parts(text, parts, addr, table) ==
    assemble_mnemonic(text, Upper(parts[1]), parse_condition(Upper(parts[1])),
                      Tail(parts), addr, table)

\* assemble_line on the line without its comment, stripped
assemble_text(text, addr, table) ==
    IF text = <<>> THEN [none |-> TRUE, word |-> Big(0, 0), errs |-> <<>>]
    ELSE assemble_parts(text, SplitTokens(text), addr, table)

\* assemble_line: none = TRUE when it returns None (an empty line), else
\* word is the value returned; errs is what it appends to self.errors
assemble_line(line, addr, table) == assemble_text(Strip(strip_comment(line)), addr, table)

----------------------------------------------------------------------------
(* assembler.py: Assembler.assemble, one action per loop iteration *)

\* a line counted whether or not an instruction follows its label
next_address_every_line(rest, addr) == addr + 4

\* the address after a line whose text after the label is rest
next_address(rest, addr) == IF rest # <<>> THEN addr + 4 ELSE addr

\* the first loop's body for source_lines[line_no]
Pass1Line ==
    /\ tool = "asm" /\ pc = "pass1" /\ line_no <= Len(source_lines)
    /\ LET line  == Strip(strip_comment(source_lines[line_no]))
           colon == Contains(line, ":")
           label == Strip(SubSeq(line, 1, IndexOf(line, ":") - 1))
           rest  == IF colon
                    THEN Strip(SubSeq(line, IndexOf(line, ":") + 1, Len(line)))
                    ELSE line
       IN  IF line = <<>> \/ StartsWith(line, <<".">>)
           THEN UNCHANGED <<pc, symbols, instructions, address>>
           ELSE IF colon /\ label \in DOMAIN symbols
           THEN \* SymbolTable.add raises ValueError, which leaves assemble
                /\ pc' = "raised"
                /\ UNCHANGED <<symbols, instructions, address>>
           ELSE /\ pc' = pc
                /\ symbols' = IF colon THEN (label :> address) @@ symbols ELSE symbols
                /\ instructions' = IF rest # <<>>
                                   THEN Append(instructions, [address |-> address, line |-> rest])
                                   ELSE instructions
                /\ address' = next_address(rest, address)
    /\ line_no' = line_no + 1
    /\ UNCHANGED link_vars
    /\ UNCHANGED <<input, tool, source_lines, machine_code, errors, listing, reassembled>>

\* the first loop ends
Pass1End ==
    /\ tool = "asm" /\ pc = "pass1" /\ line_no > Len(source_lines)
    /\ pc' = "pass2"
    /\ line_no' = 1
    /\ UNCHANGED link_vars
    /\ UNCHANGED <<input, tool, source_lines, address, symbols, instructions,
                   machine_code, errors, listing, reassembled>>

\* the second loop's body for instructions[line_no]
Pass2Line ==
    /\ tool = "asm" /\ pc = "pass2" /\ line_no <= Len(instructions)
    /\ \E r \in {assemble_line(instructions[line_no].line,
                                instructions[line_no].address, symbols)} :
           /\ machine_code' = IF r.none THEN machine_code
                              ELSE Append(machine_code, r.word)
           /\ errors' = errors \o r.errs
    /\ line_no' = line_no + 1
    /\ UNCHANGED link_vars
    /\ UNCHANGED <<input, tool, pc, source_lines, address, symbols, instructions,
                   listing, reassembled>>

\* the second loop ends and assemble returns machine_code
Pass2End ==
    /\ tool = "asm" /\ pc = "pass2" /\ line_no > Len(instructions)
    /\ pc' = "assembled"
    /\ line_no' = 1
    /\ UNCHANGED link_vars
    /\ UNCHANGED <<input, tool, source_lines, address, symbols, instructions,
                   machine_code, errors, listing, reassembled>>

----------------------------------------------------------------------------
(* disassembler.py: ARM7Disassembler *)

RECURSIVE DigitsOf(_, _)
\* the digits of n >= 0 in the base, most significant first
DigitsOf(n, base) ==
    IF n < base THEN <<HexChars[n + 1]>>
    ELSE Append(DigitsOf(n \div base, base), HexChars[(n % base) + 1])

\* f"{n}"
Dec(n) == DigitsOf(n, 10)

RECURSIVE ZeroPad(_, _)
\* s padded on the left with "0" to the width
ZeroPad(s, width) == IF Len(s) >= width THEN s ELSE ZeroPad(<<"0">> \o s, width)

\* f"{x:X}" for a two-limb x >= 0
HexOf(x) ==
    IF x[1] = 0 THEN DigitsOf(x[2], 16)
    ELSE DigitsOf(x[1], 16) \o ZeroPad(DigitsOf(x[2], 16), 4)

\* (instr >> shift) & mask, a small integer
Bits(instr, shift, mask) == Small(BigAnd(BigShr(instr, shift), ToBig(mask)))

\* COND_CODES
COND_CODES == << <<"E","Q">>, <<"N","E">>, <<"C","S">>, <<"C","C">>, <<"M","I">>,
                 <<"P","L">>, <<"V","S">>, <<"V","C">>, <<"H","I">>, <<"L","S">>,
                 <<"G","E">>, <<"L","T">>, <<"G","T">>, <<"L","E">>, <<>>, <<"N","V">> >>

\* DP_OPCODES
DP_OPCODES == << <<"A","N","D">>, <<"E","O","R">>, <<"S","U","B">>, <<"R","S","B">>,
                 <<"A","D","D">>, <<"A","D","C">>, <<"S","B","C">>, <<"R","S","C">>,
                 <<"T","S","T">>, <<"T","E","Q">>, <<"C","M","P">>, <<"C","M","N">>,
                 <<"O","R","R">>, <<"M","O","V">>, <<"B","I","C">>, <<"M","V","N">> >>

\* SHIFT_TYPES
SHIFT_TYPES == << <<"L","S","L">>, <<"L","S","R">>, <<"A","S","R">>, <<"R","O","R">> >>

\* f" R{n}"
RegText(n) == <<" ", "R">> \o Dec(n)

\* rotate_right
rotate_right(value, amount) ==
    LET a == amount % 32
    IN  BigAnd(BigOr(BigShr(ToBig(value), a), BigShl(ToBig(value), 32 - a)),
               Big(2^16 - 1, 2^16 - 1))

\* disasm_data_processing
disasm_data_processing(instr, cond) ==
    LET opcode   == Bits(instr, 21, 15)
        s_bit    == Bits(instr, 20, 1)
        rn       == Bits(instr, 16, 15)
        rd       == Bits(instr, 12, 15)
        imm_flag == Bits(instr, 25, 1)
        is_test  == opcode \in {8, 9, 10, 11}
        is_move  == opcode \in {13, 15}
        head     == DP_OPCODES[opcode + 1] \o cond \o (IF s_bit = 1 THEN <<"S">> ELSE <<>>)
                    \o (IF ~is_test THEN RegText(rd) \o <<",">> ELSE <<>>)
                    \o (IF ~is_move THEN RegText(rn) \o <<",">> ELSE <<>>)
        shift_imm == Bits(instr, 7, 31)
    IN  IF imm_flag = 1
        THEN head \o <<" ", "#", "0", "x">>
                  \o HexOf(rotate_right(Bits(instr, 0, 255), Bits(instr, 8, 15) * 2))
        ELSE head \o RegText(Bits(instr, 0, 15))
                  \o (IF shift_imm # 0
                      THEN <<",", " ">> \o SHIFT_TYPES[Bits(instr, 5, 3) + 1]
                           \o <<" ", "#">> \o Dec(shift_imm)
                      ELSE <<>>)

\* disasm_multiply
disasm_multiply(instr, cond) ==
    <<"M", "U", "L">> \o cond \o RegText(Bits(instr, 16, 15)) \o <<",">>
        \o RegText(Bits(instr, 0, 15)) \o <<",">> \o RegText(Bits(instr, 8, 15))

\* disasm_load_store
disasm_load_store(instr, cond) ==
    (IF Bits(instr, 20, 1) = 1 THEN <<"L", "D", "R">> ELSE <<"S", "T", "R">>)
        \o (IF Bits(instr, 22, 1) = 1 THEN <<"B">> ELSE <<>>)
        \o cond \o RegText(Bits(instr, 12, 15)) \o <<",", " ", "[", "R">>
        \o Dec(Bits(instr, 16, 15)) \o <<",", " ", "#", "0", "x">>
        \o DigitsOf(Bits(instr, 0, 2^12 - 1), 16) \o <<"]">>

RECURSIVE RegList(_, _)
\* the names of the registers i..15 whose bit is set, joined by ", "
RegList(reg_list, i) ==
    IF i > 15 THEN <<>>
    ELSE LET rest == RegList(reg_list, i + 1)
         IN  IF (reg_list \div 2^i) % 2 = 0 THEN rest
             ELSE <<"R">> \o Dec(i) \o (IF rest = <<>> THEN <<>> ELSE <<",", " ">> \o rest)

\* disasm_ldm_stm
disasm_ldm_stm(instr, cond) ==
    (IF Bits(instr, 20, 1) = 1 THEN <<"L", "D", "M">> ELSE <<"S", "T", "M">>)
        \o cond \o RegText(Bits(instr, 16, 15)) \o <<",", " ", "{">>
        \o RegList(Bits(instr, 0, 2^16 - 1), 0) \o <<"}">>

\* sign_extend_24
sign_extend_24(value) ==
    IF BigAnd(value, Big(2^7, 0)) # Big(0, 0) THEN BigOr(value, Big(2^16 - 2^8, 0))
    ELSE value

\* the target disasm_branch computes for the word at addr
branch_target(instr, addr) ==
    LET low    == BigAnd(instr, Big(2^8 - 1, 2^16 - 1))
        offset == IF BigAnd(low, Big(2^7, 0)) # Big(0, 0)
                  THEN BigOr(low, Big(2^16 - 2^8, 0)) ELSE low
    IN  BigAdd(ToBig(addr + 8), BigShl(sign_extend_24(offset), 2))

\* disasm_branch, names being self.symbols (address -> name)
disasm_branch(instr, cond, addr, names) ==
    LET target == branch_target(instr, addr)
    IN  (IF Bits(instr, 24, 1) = 1 THEN <<"B", "L">> ELSE <<"B">>) \o cond \o <<" ">>
        \o (IF target \in DOMAIN names THEN names[target]
            ELSE <<"0", "x">> \o ZeroPad(HexOf(target), 8))

\* disasm_swi
disasm_swi(instr, cond) ==
    <<"S", "W", "I">> \o cond \o <<" ", "0", "x">>
        \o HexOf(BigAnd(instr, Big(2^8 - 1, 2^16 - 1)))

\* the classes with multiply tested after data processing, so never chosen
instr_class_multiply_last(instr) ==
    LET top == instr[1] % 2^12
    IN  IF top \div 2^10 = 0 THEN "data_processing"
        ELSE IF top \div 2^10 = 1 THEN "load_store"
        ELSE IF top \div 2^9 = 4 THEN "ldm_stm"
        ELSE IF top \div 2^9 = 5 THEN "branch"
        ELSE IF top \div 2^8 = 15 THEN "swi"
        ELSE "unknown"

\* the class disassemble_instruction chooses for the word
instr_class(instr) ==
    LET top == instr[1] % 2^12   \* bits 27..16
    IN  IF top \div 2^10 = 0
        THEN IF BigAnd(instr, Big(2^12 - 2^6, 240)) = Big(0, 144)
             THEN "multiply" ELSE "data_processing"
        ELSE IF top \div 2^10 = 1 THEN "load_store"
        ELSE IF top \div 2^9 = 4 THEN "ldm_stm"
        ELSE IF top \div 2^9 = 5 THEN "branch"
        ELSE IF top \div 2^8 = 15 THEN "swi"
        ELSE "unknown"

\* disassemble_instruction
disassemble_instruction(instr, addr, names) ==
    LET cond_str == COND_CODES[Bits(instr, 28, 15) + 1]
        class    == instr_class(instr)
    IN  CASE class = "multiply" -> disasm_multiply(instr, cond_str)
          [] class = "data_processing" -> disasm_data_processing(instr, cond_str)
          [] class = "load_store" -> disasm_load_store(instr, cond_str)
          [] class = "ldm_stm" -> disasm_ldm_stm(instr, cond_str)
          [] class = "branch" -> disasm_branch(instr, cond_str, addr, names)
          [] class = "swi" -> disasm_swi(instr, cond_str)
          [] OTHER -> <<"U","N","K","N","O","W","N"," "," ","0","x">>
                      \o ZeroPad(HexOf(instr), 8)

----------------------------------------------------------------------------
(* the round trip: disassembler.py's disassemble_file loop over the words  *)
(* assemble returned, base address 0, then assemble_line on each line of   *)
(* the listing at the address of its word                                  *)

\* the symbol map handed to ARM7Disassembler: address -> label, from the
\* assembler's table (one label per address)
names_of(table) ==
    [a \in {ToBig(table[l]) : l \in DOMAIN table} |->
        CHOOSE l \in DOMAIN table : ToBig(table[l]) = a]

\* disassemble_file's loop body for word number line_no
Disassemble ==
    /\ tool = "asm" /\ pc = "assembled" /\ line_no <= Len(machine_code)
    /\ listing' = Append(listing,
                         disassemble_instruction(machine_code[line_no],
                                                 4 * (line_no - 1), names_of(symbols)))
    /\ line_no' = line_no + 1
    /\ UNCHANGED link_vars
    /\ UNCHANGED <<input, tool, pc, source_lines, address, symbols, instructions,
                   machine_code, errors, reassembled>>

\* disassemble_file's loop ends
DisassembleEnd ==
    /\ tool = "asm" /\ pc = "assembled" /\ line_no > Len(machine_code)
    /\ pc' = "listed"
    /\ line_no' = 1
    /\ UNCHANGED link_vars
    /\ UNCHANGED <<input, tool, source_lines, address, symbols, instructions,
                   machine_code, errors, listing, reassembled>>

\* assemble_line on line number line_no of the listing, by an Assembler
\* holding the same symbol table
Reassemble ==
    /\ tool = "asm" /\ pc = "listed" /\ line_no <= Len(listing)
    /\ reassembled' = Append(reassembled,
                             assemble_line(listing[line_no], 4 * (line_no - 1), symbols))
    /\ line_no' = line_no + 1
    /\ UNCHANGED link_vars
    /\ UNCHANGED <<input, tool, pc, source_lines, address, symbols, instructions,
                   machine_code, errors, listing>>

\* every line of the listing has been assembled again
ReassembleEnd ==
    /\ tool = "asm" /\ pc = "listed" /\ line_no > Len(listing)
    /\ pc' = "done"
    /\ UNCHANGED link_vars
    /\ UNCHANGED <<input, tool, line_no, source_lines, address, symbols, instructions,
                   machine_code, errors, listing, reassembled>>

----------------------------------------------------------------------------
(* linker.py: Section, Symbol, Linker.  Bytes are integers 0..255, a       *)
(* bytearray is a sequence of them; a dict is a function on its keys       *)

\* Section(name)
Section(name) == [name |-> name, data |-> <<>>, base_addr |-> 0, size |-> 0]

\* Symbol(name, value, section, is_global); resolved tells that
\* resolved_addr is not None
Symbol(name, value, section, is_global) ==
    [name |-> name, value |-> value, section |-> section, is_global |-> is_global,
     resolved |-> FALSE, resolved_addr |-> 0]

\* Linker.__init__: the three sections every link starts with
empty_sections ==
    [n \in {".text", ".data", ".bss"} |-> Section(n)]

\* Linker.__init__: the memory layout used when none is given
default_layout ==
    (".text" :> 0) @@ (".data" :> 65536) @@ (".bss" :> 131072)

\* d.setdefault(key, val): an entry that is there stays
put_if_absent(d, key, val) ==
    [k \in DOMAIN d \union {key} |-> IF k \in DOMAIN d THEN d[k] ELSE val]

\* d[key] = val on a dict
put(d, key, val) ==
    [k \in DOMAIN d \union {key} |-> IF k = key THEN val ELSE d[k]]

\* merge_sections: the merged section of that name is created if absent
with_section(secs, name) ==
    IF name \in DOMAIN secs THEN secs ELSE put(secs, name, Section(name))

\* merge_sections: data.extend(section.data), size = len(data)
extend(secs, name, data) ==
    [secs EXCEPT ![name].data = @ \o data,
                 ![name].size = Len(secs[name].data) + Len(data)]

\* the symbol's value with no contribution offset added
adjusted_value_unshifted(symbol, obj_section_offset) == symbol.value

\* merge_sections: adjusted_value
adjusted_value(symbol, obj_section_offset) == symbol.value + obj_section_offset

\* merge_sections: the key a symbol is entered under
symbol_key(filename, symbol) ==
    IF symbol.is_global THEN symbol.name ELSE filename \o ":" \o symbol.name

\* merge_sections: one symbol of the object, while its section section_name
\* is being merged; ln holds sections, global_symbols, console, relocations
enter_symbol(ln, filename, symbol, section_name, obj_section_offset) ==
    IF symbol.section # section_name THEN ln
    ELSE [ln EXCEPT
            !.global_symbols =
                put(@, symbol_key(filename, symbol),
                    Symbol(symbol.name, adjusted_value(symbol, obj_section_offset),
                           section_name, symbol.is_global)),
            !.console =
                IF symbol.is_global /\ symbol.name \in DOMAIN ln.global_symbols
                THEN Append(@, "Warning: Duplicate global symbol '"
                                  \o symbol.name \o "'")
                ELSE @]

RECURSIVE enter_symbols(_, _, _, _, _, _)
\* merge_sections: the loop over obj.symbols, from the k-th on
enter_symbols(ln, filename, syms, k, section_name, obj_section_offset) ==
    IF k > Len(syms) THEN ln
    ELSE enter_symbols(enter_symbol(ln, filename, syms[k], section_name,
                                    obj_section_offset),
                       filename, syms, k + 1, section_name, obj_section_offset)

\* merge_sections: the loop over obj.relocations
adjust_relocations(relocs, section_name, obj_section_offset) ==
    [i \in 1..Len(relocs) |->
        IF relocs[i].section = section_name
        THEN [relocs[i] EXCEPT !.offset = @ + obj_section_offset]
        ELSE relocs[i]]

\* merge_sections: data, symbols and relocations of one section of an
\* object, obj_section_offset being the merged length before it
merge_at(ln, filename, syms, section, obj_section_offset) ==
    enter_symbols([ln EXCEPT
                     !.sections = extend(@, section.name, section.data),
                     !.relocations = adjust_relocations(@, section.name,
                                                        obj_section_offset)],
                  filename, syms, 1, section.name, obj_section_offset)

\* merge_sections: the loop body for one section of an object
merge_section(ln, filename, syms, section) ==
    merge_at(ln, filename, syms, section, Len(ln.sections[section.name].data))

RECURSIVE merge_object(_, _, _)
\* merge_sections: the loop over obj.sections, from the k-th on
merge_object(ln, obj, k) ==
    IF k > Len(obj.sections) THEN ln
    ELSE merge_object(
            merge_section([ln EXCEPT !.sections = with_section(@, obj.sections[k].name)],
                          obj.filename, obj.symbols, obj.sections[k]),
            obj, k + 1)

\* assign_addresses: the base address of each section the layout names
based(secs, layout) ==
    [n \in DOMAIN secs |->
        IF n \in DOMAIN layout THEN [secs[n] EXCEPT !.base_addr = layout[n]]
        ELSE secs[n]]

\* assign_addresses: the resolved address of each symbol whose section exists
resolved_symbols(table, secs) ==
    [k \in DOMAIN table |->
        IF table[k].section \in DOMAIN secs
        THEN [table[k] EXCEPT !.resolved = TRUE,
                              !.resolved_addr = secs[table[k].section].base_addr
                                                  + table[k].value]
        ELSE table[k]]

\* the name prefixed with the object's filename tried first
lookup_local_first(table, filename, name) ==
    IF (filename \o ":" \o name) \in DOMAIN table
    THEN <<filename \o ":" \o name>>
    ELSE IF name \in DOMAIN table THEN <<name>>
    ELSE <<>>

\* apply_relocations: the key the relocation's symbol is found under, the
\* global name first, then the name prefixed with the object's filename
lookup(table, filename, name) ==
    IF name \in DOMAIN table THEN <<name>>
    ELSE IF (filename \o ":" \o name) \in DOMAIN table
    THEN <<filename \o ":" \o name>>
    ELSE <<>>

Min(a, b) == IF a < b THEN a ELSE b

\* data[offset:offset+4], offset >= 0
slice4(data, offset) ==
    SubSeq(data, Min(offset, Len(data)) + 1, Min(offset + 4, Len(data)))

\* data[offset:offset+4] = four, offset >= 0
splice4(data, offset, four) ==
    SubSeq(data, 1, Min(offset, Len(data))) \o four
        \o SubSeq(data, Min(offset + 4, Len(data)) + 1, Len(data))

\* struct.unpack('<I', four)[0]
unpack(four) == Big(four[4] * 256 + four[3], four[2] * 256 + four[1])

\* struct.pack('<I', w), for 0 <= w < 2^32
pack(w) == <<w[2] % 256, w[2] \div 256, w[1] % 256, w[1] \div 256>>

\* the offset taken from the relocation's own address, not from PC + 8
rel24_offset_from_branch(target_addr, current_addr) ==
    (target_addr - current_addr) \div 4

\* apply_relocations, rel24: (target_addr - current_addr - 8) >> 2
rel24_offset(target_addr, current_addr) ==
    (target_addr - current_addr - 8) \div 4

\* apply_relocations, rel24: the word with its offset field replaced
rel24_word(instr, offset) ==
    BigOr(BigAnd(instr, Big(65280, 0)), ToBig(AndI(offset, 16777215)))

\* apply_relocations: the effect of one relocation of the object named
\* filename on the section it names; raised tells that struct raised
relocated(section, symbol, reloc) ==
    IF reloc.rel_type = "abs32"
    THEN IF ~symbol.resolved \/ symbol.resolved_addr < 0
         THEN [raised |-> TRUE, data |-> section.data]
         ELSE [raised |-> FALSE,
               data |-> splice4(section.data, reloc.offset,
                                pack(ToBig(symbol.resolved_addr)))]
    ELSE IF reloc.rel_type = "rel24"
    THEN IF ~symbol.resolved \/ Len(slice4(section.data, reloc.offset)) # 4
         THEN [raised |-> TRUE, data |-> section.data]
         ELSE [raised |-> FALSE,
               data |-> splice4(section.data, reloc.offset,
                                pack(rel24_word(
                                       unpack(slice4(section.data, reloc.offset)),
                                       rel24_offset(symbol.resolved_addr,
                                                    section.base_addr + reloc.offset))))]
    ELSE [raised |-> FALSE, data |-> section.data]

----------------------------------------------------------------------------
(* linker.py: merge_sections, assign_addresses and apply_relocations, in   *)
(* the order main calls them; one action per iteration of an outer loop    *)

\* merge_sections: the outer loop's body for object_files[obj_no]
MergeObject ==
    /\ tool = "link" /\ pc = "merge_sections" /\ obj_no <= Len(object_files)
    /\ \E ln \in {merge_object([sections |-> sections,
                                global_symbols |-> global_symbols,
                                console |-> console,
                                relocations |-> object_files[obj_no].relocations],
                               object_files[obj_no], 1)} :
           /\ sections' = ln.sections
           /\ global_symbols' = ln.global_symbols
           /\ console' = ln.console
           /\ object_files' = [object_files EXCEPT ![obj_no].relocations = ln.relocations]
    /\ obj_no' = obj_no + 1
    /\ UNCHANGED asm_vars
    /\ UNCHANGED <<input, tool, pc, memory_layout, rel_no>>

\* merge_sections returns
MergeEnd ==
    /\ tool = "link" /\ pc = "merge_sections" /\ obj_no > Len(object_files)
    /\ pc' = "assign_addresses"
    /\ UNCHANGED asm_vars
    /\ UNCHANGED <<input, tool, link_vars>>

\* assign_addresses
AssignAddresses ==
    /\ tool = "link" /\ pc = "assign_addresses"
    /\ \E secs \in {based(sections, memory_layout)} :
           /\ sections' = secs
           /\ global_symbols' = resolved_symbols(global_symbols, secs)
    /\ pc' = "apply_relocations"
    /\ obj_no' = 1
    /\ rel_no' = 1
    /\ UNCHANGED asm_vars
    /\ UNCHANGED <<input, tool, memory_layout, object_files, console>>

\* the loop over the object's n relocations left at an undefined symbol
after_undefined_break(k, n) == n + 1

\* apply_relocations: continue, after an undefined symbol at relocation k
\* of the object's n
after_undefined(k, n) == k + 1

\* apply_relocations: the inner loop's body for relocation rel_no of
\* object_files[obj_no]
ApplyRelocation ==
    /\ tool = "link" /\ pc = "apply_relocations" /\ obj_no <= Len(object_files)
    /\ rel_no <= Len(object_files[obj_no].relocations)
    /\ \E reloc \in {object_files[obj_no].relocations[rel_no]} :
       \E key \in {lookup(global_symbols, object_files[obj_no].filename, reloc.symbol)} :
           IF key = <<>>
           THEN /\ console' = Append(console, "Error: Undefined symbol '"
                                                \o reloc.symbol \o "'")
                /\ rel_no' = after_undefined(rel_no, Len(object_files[obj_no].relocations))
                /\ UNCHANGED <<pc, sections>>
           ELSE IF reloc.section \notin DOMAIN sections
           THEN /\ rel_no' = rel_no + 1
                /\ UNCHANGED <<pc, sections, console>>
           ELSE \E r \in {relocated(sections[reloc.section],
                                    global_symbols[key[1]], reloc)} :
                    /\ pc' = IF r.raised THEN "raised" ELSE pc
                    /\ sections' = [sections EXCEPT ![reloc.section].data = r.data]
                    /\ rel_no' = rel_no + 1
                    /\ UNCHANGED console
    /\ UNCHANGED asm_vars
    /\ UNCHANGED <<input, tool, memory_layout, object_files, global_symbols, obj_no>>

\* apply_relocations: the inner loop ends for object_files[obj_no]
NextObject ==
    /\ tool = "link" /\ pc = "apply_relocations" /\ obj_no <= Len(object_files)
    /\ rel_no > Len(object_files[obj_no].relocations)
    /\ obj_no' = obj_no + 1
    /\ rel_no' = 1
    /\ UNCHANGED asm_vars
    /\ UNCHANGED <<input, tool, pc, memory_layout, object_files, sections,
                   global_symbols, console>>

\* apply_relocations returns
ApplyEnd ==
    /\ tool = "link" /\ pc = "apply_relocations" /\ obj_no > Len(object_files)
    /\ pc' = "linked"
    /\ UNCHANGED asm_vars
    /\ UNCHANGED <<input, tool, link_vars>>

----------------------------------------------------------------------------
(* the source texts the assembler is run on *)

\* longest program of the branch and layout families, in lines
MaxLines == 3

\* mnemonic texts, by opcode number + 1
Mnemonics == << <<"A","N","D">>, <<"E","O","R">>, <<"S","U","B">>, <<"R","S","B">>,
                <<"A","D","D">>, <<"A","D","C">>, <<"S","B","C">>, <<"R","S","C">>,
                <<"T","S","T">>, <<"T","E","Q">>, <<"C","M","P">>, <<"C","M","N">>,
                <<"O","R","R">>, <<"M","O","V">>, <<"B","I","C">>, <<"M","V","N">> >>

\* condition suffix texts, by condition code + 1 (AL: no suffix)
Suffixes == << <<"E","Q">>, <<"N","E">>, <<"C","S">>, <<"C","C">>, <<"M","I">>,
               <<"P","L">>, <<"V","S">>, <<"V","C">>, <<"H","I">>, <<"L","S">>,
               <<"G","E">>, <<"L","T">>, <<"G","T">>, <<"L","E">>, <<>> >>

\* opcodes taking Rd, Rn, op2 / Rd, op2 / Rn, op2
ThreeOps == {0, 1, 2, 3, 4, 5, 6, 7, 12, 14}

MoveOps == {13, 15}

TestOps == {8, 9, 10, 11}

\* load/store mnemonic texts
MemMnemonics == << <<"L","D","R">>, <<"S","T","R">>, <<"L","D","R","B">>,
                   <<"S","T","R","B">> >>

\* "R<n>"
RegName(n) == <<"R">> \o Dec(n)

\* "#<v>" in decimal
ImmText(v) == <<"#">> \o (IF v < 0 THEN <<"-">> \o Dec(0 - v) ELSE Dec(v))

Sep == <<",", " ">>

\* the mnemonic of a data-processing input: base, then condition and S in
\* the order the input asks for ("CS": M cond S, "SC": M S cond)
MnemonicText(in) ==
    Mnemonics[in.op + 1]
        \o (IF in.order = "CS" THEN Suffixes[in.cond + 1] ELSE <<>>)
        \o (IF in.s = 1 THEN <<"S">> ELSE <<>>)
        \o (IF in.order = "SC" THEN Suffixes[in.cond + 1] ELSE <<>>)

\* operand 2 of a data-processing input
Op2Text(in) == IF in.imm THEN ImmText(in.op2) ELSE RegName(in.op2)

\* the line of a data-processing input
DPLine(in) ==
    MnemonicText(in) \o <<" ">>
        \o (IF in.op \in TestOps THEN <<>> ELSE RegName(in.rd) \o Sep)
        \o (IF in.op \in MoveOps THEN <<>> ELSE RegName(in.rn) \o Sep)
        \o Op2Text(in)

\* the line of a load/store input: M Rd, [Rn] or M Rd, [Rn, #imm]
MemLine(in) ==
    MemMnemonics[in.m] \o <<" ">> \o RegName(in.rd) \o Sep \o <<"[">> \o RegName(in.rn)
        \o (IF in.offset < 0 THEN <<>> ELSE Sep \o ImmText(in.offset)) \o <<"]">>

\* a data-processing input
DP(op, cond, s, order, rd, rn, imm, op2) ==
    [kind |-> "dp", op |-> op, cond |-> cond, s |-> s, order |-> order,
     rd |-> rd, rn |-> rn, imm |-> imm, op2 |-> op2]

\* register triples in which every position takes every register number
RegTriples ==
    {<<a, 2, 3>> : a \in 0..MaxReg} \union {<<1, b, 3>> : b \in 0..MaxReg}
    \union {<<1, 2, c>> : c \in 0..MaxReg}

\* immediate literals: some that fit 8 bits, some that fit 12, some that do not
Imms == {0, 1, 5, 16, 144, 255, 256, 4095, 4096, 4097, 65535}

\* data-processing inputs with a bare register as operand 2
RegInputs ==
    {DP(op, 14, 0, "CS", t[1], t[2], FALSE, t[3]) : op \in 0..15, t \in RegTriples}

\* data-processing inputs with an immediate as operand 2
ImmInputs ==
    {DP(op, 14, 0, "CS", rd, 4, TRUE, v) : op \in 0..15, rd \in {0, 9}, v \in Imms}

\* immediate literals with a sign, and the largest that fits 31 bits
SignedImms == {-65536, -4096, -256, -2, -1, 0, 255, 2147483647}

\* data-processing inputs with a signed immediate as operand 2
SignedInputs ==
    {DP(op, 14, 0, "CS", rd, 4, TRUE, v) : op \in 0..15, rd \in {0, 9}, v \in SignedImms}

\* data-processing inputs with every condition and S suffix, S after the
\* condition ("CS") or before it ("SC")
SuffixInputs ==
    {DP(op, c, s, o, 1, 2, FALSE, 3) : op \in 0..15, c \in 0..14, s \in {0, 1},
                                      o \in {"CS", "SC"}}
    \union {DP(op, c, s, "SC", 1, 2, TRUE, 5) : op \in {4, 10, 13}, c \in {0, 14}, s \in {0, 1}}

\* load/store inputs; offset -1 stands for the form without an offset
MemInputs ==
    {[kind |-> "mem", m |-> m, rd |-> rd, rn |-> rn, offset |-> off] :
        m \in 1..4, rd \in {0, 7, 15}, rn \in {1, 10}, off \in {-1, 0, 8, 255, 4095}}

\* the filler instruction of the multi-line programs
Filler == <<"A","D","D"," ","R","0",","," ","R","0",","," ","#","1">>

\* the label the branch programs use
Lab == <<"l","o","o","p">>

\* branch programs: n lines, line a is B/BL to Lab, line t defines Lab (as
\* a line of its own, or in front of an instruction when attached; t = 0:
\* Lab is not defined), every other line is the filler
BranchInputs ==
    {[kind |-> "branch", n |-> n, a |-> a, t |-> t, link |-> link, attached |-> att] :
        n \in 1..MaxLines, a \in 1..MaxLines, t \in 0..MaxLines, link \in {0, 1},
        att \in BOOLEAN}

\* line i of a branch program
BranchLine(in, i) ==
    LET branch == (IF in.link = 1 THEN <<"B","L">> ELSE <<"B">>) \o <<" ">> \o Lab
    IN  IF i = in.t /\ i = in.a THEN Lab \o <<":", " ">> \o branch
        ELSE IF i = in.a THEN branch
        ELSE IF i = in.t
        THEN (IF in.attached THEN Lab \o <<":", " ">> \o Filler ELSE Lab \o <<":">>)
        ELSE Filler

\* the kinds of line of the layout programs
LineKinds == {"blank", "comment", "directive", "label", "labelled", "dotted",
              "instr", "same_label", "unknown"}

\* the kinds that hold an instruction part
InstrKinds == {"labelled", "dotted", "instr", "unknown"}

\* the label a layout program defines on line i: "L<i>"
LabelAt(i) == <<"L">> \o Dec(i)

\* line i of a layout program, of the kind given
LayoutLine(kind, i) ==
    CASE kind = "blank" -> <<" ", "\t">>
      [] kind = "comment" -> <<" ", ";", " ", "x", ":", " ", "y">>
      [] kind = "directive" -> <<" ", ".", "t", "e", "x", "t">>
      [] kind = "label" -> LabelAt(i) \o <<":", " ", ";", "c">>
      [] kind = "labelled" -> <<" ">> \o LabelAt(i) \o <<":", "\t">> \o Filler \o <<" ", ";", "c">>
      [] kind = "dotted" -> LabelAt(i) \o <<":", " ", ".", "w", "o", "r", "d", " ", "5">>
      [] kind = "instr" -> <<" ", "M","O","V"," ","R","1",","," ","R","2", " ">>
      [] kind = "same_label" -> <<"x", ":">>
      [] kind = "unknown" -> <<"N", "O", "P">>

RECURSIVE Seqs(_, _)
\* the sequences over S of length n
Seqs(S, n) ==
    IF n = 0 THEN {<<>>} ELSE {Append(q, x) : q \in Seqs(S, n - 1), x \in S}

\* layout programs: every sequence of 1..MaxLines line kinds
LayoutInputs ==
    {[kind |-> "layout", lines |-> q] : q \in UNION {Seqs(LineKinds, n) : n \in 1..MaxLines}}

\* the kinds of line of the faulty programs: every line holds an instruction
FaultKinds == {"ok", "target", "branch", "unknown", "bad_reg", "loose_reg",
               "no_operand", "bad_imm"}

\* the label a faulty program defines on a line of kind "target": "T<i>"
TargetAt(i) == <<"T">> \o Dec(i)

\* line i of a faulty program, of the kind given
FaultyLine(kind, i) ==
    CASE kind = "ok" -> <<"M","O","V"," ","R","1",","," ","R","2">>
      [] kind = "target" -> TargetAt(i) \o <<":", " ">> \o Filler
      [] kind = "branch" -> <<"B", " ">> \o TargetAt(1)
      [] kind = "unknown" -> <<"N", "O", "P">>
      [] kind = "bad_reg" -> <<"M","O","V"," ","R","1","6",","," ","R","2">>
      [] kind = "loose_reg" -> <<"M","O","V"," ","R","0",","," ","R","1","x">>
      [] kind = "no_operand" -> <<"A","D","D"," ","R","1",","," ","R","2">>
      [] kind = "bad_imm" -> <<"M","O","V"," ","R","0",","," ","#","z","z">>

\* faulty programs: every sequence of 1..MaxLines such lines
FaultyInputs ==
    {[kind |-> "faulty", lines |-> q] : q \in UNION {Seqs(FaultKinds, n) : n \in 1..MaxLines}}

\* the source text of an input
Render(in) ==
    CASE in.kind = "dp" -> <<DPLine(in)>>
      [] in.kind = "mem" -> <<MemLine(in)>>
      [] in.kind = "branch" -> [i \in 1..in.n |-> BranchLine(in, i)]
      [] in.kind = "layout" -> [i \in 1..Len(in.lines) |-> LayoutLine(in.lines[i], i)]
      [] in.kind = "faulty" -> [i \in 1..Len(in.lines) |-> FaultyLine(in.lines[i], i)]

\* Assembler.__init__, then assemble called on the text of an input
InitAsm(inputs) ==
    /\ input \in inputs
    /\ source_lines = Render(input)
    /\ tool = "asm"
    /\ pc = "pass1"
    /\ line_no = 1
    /\ address = 0
    /\ symbols = <<>>
    /\ instructions = <<>>
    /\ machine_code = <<>>
    /\ errors = <<>>
    /\ listing = <<>>
    /\ reassembled = <<>>
    /\ memory_layout = default_layout
    /\ object_files = <<>>
    /\ sections = empty_sections
    /\ global_symbols = <<>>
    /\ console = <<>>
    /\ obj_no = 1
    /\ rel_no = 1

Init == InitAsm(RegInputs \union ImmInputs \union MemInputs)

InitSuffix == InitAsm(SuffixInputs)

InitBranch == InitAsm(BranchInputs)

InitLayout == InitAsm(LayoutInputs)

InitFaulty == InitAsm(FaultyInputs)

InitSigned == InitAsm(SignedInputs \union MemInputs)

Next ==
    \/ Pass1Line
    \/ Pass1End
    \/ Pass2Line
    \/ Pass2End
    \/ Disassemble
    \/ DisassembleEnd
    \/ Reassemble
    \/ ReassembleEnd

\* the assembler and the round trip on one-line sources: data-processing
\* lines with a register or an immediate operand 2, load/store lines
Spec == Init /\ [][Next]_vars

\* on data-processing lines with condition and S suffixes
SpecSuffix == InitSuffix /\ [][Next]_vars

\* on programs with a branch and a label
SpecBranch == InitBranch /\ [][Next]_vars

\* on programs of blank, comment, directive, label and instruction lines
SpecLayout == InitLayout /\ [][Next]_vars

\* on programs with unknown mnemonics and operands that are no operands
SpecFaulty == InitFaulty /\ [][Next]_vars

\* the assembler on one-line programs with signed immediates and offsets
SpecSigned == InitSigned /\ [][Next]_vars

----------------------------------------------------------------------------
(* the objects the linker is run on: a.o then b.o *)

\* the longest .text of an object, in words
MaxWords == 2

\* BL, B and a data word, little-endian
WordBytes == << <<0, 0, 0, 235>>, <<254, 255, 255, 234>>, <<120, 86, 52, 18>> >>

\* len bytes of words, from the word numbered first on
Bytes(first, len) ==
    [i \in 1..len |-> WordBytes[((first + (i - 1) \div 4 - 1) % 3) + 1][((i - 1) % 4) + 1]]

\* the .text lengths of an object; -1: the object has no .text section
TextLens == {-1} \union {4 * k : k \in 0..MaxWords}

SymChoices ==
    {Symbol("f", v, sec, g) : v \in {0, 4}, sec \in {".text", ".data"}, g \in BOOLEAN}

RelChoices ==
    {[offset |-> o, symbol |-> n, rel_type |-> t, section |-> sec] :
        o \in {0, 4, 6}, n \in {"f", "u"}, t \in {"rel24", "abs32", "thumb"},
        sec \in {".text", ".data"}}

Layouts == {default_layout, (".text" :> 32768) @@ (".data" :> 65536)}

\* objects without relocations
MergeInputs ==
    {[kind |-> "link", layout |-> l,
      a |-> [text |-> at, syms |-> as, relocs |-> <<>>],
      b |-> [text |-> bt, syms |-> <<bs>>, relocs |-> <<>>]] :
        l \in Layouts, at \in TextLens, bt \in TextLens, bs \in SymChoices,
        as \in {<<>>, <<Symbol("f", 0, ".text", TRUE)>>, <<Symbol("f", 4, ".text", FALSE)>>}}

\* objects with one symbol and one relocation, each in either object
RelocInputs ==
    {[kind |-> "link", layout |-> l,
      a |-> [text |-> 4 * k, syms |-> IF so = "a" THEN <<sy>> ELSE <<>>,
             relocs |-> IF ro = "a" THEN <<re>> ELSE <<>>],
      b |-> [text |-> 4, syms |-> IF so = "b" THEN <<sy>> ELSE <<>>,
             relocs |-> IF ro = "b" THEN <<re>> ELSE <<>>]] :
        l \in Layouts, k \in 1..MaxWords, so \in {"a", "b"}, ro \in {"a", "b"},
        sy \in SymChoices, re \in RelChoices}

\* what parse_object_file builds from the records of an object of that shape
ObjectOf(filename, first, data, shape) ==
    [filename |-> filename,
     sections |-> (IF shape.text >= 0
                   THEN <<[Section(".text") EXCEPT !.data = Bytes(first, shape.text),
                                                   !.size = shape.text]>>
                   ELSE <<>>)
                  \o <<[Section(".data") EXCEPT !.data = data, !.size = Len(data)]>>,
     symbols |-> shape.syms,
     relocations |-> shape.relocs]

\* a relocation to f, and one to u, which no object defines, in .text
RelocTo(name, o, t) ==
    [offset |-> o, symbol |-> name, rel_type |-> t, section |-> ".text"]

\* seq with x put after its first k elements
InsertAt(seq, k, x) == SubSeq(seq, 1, k) \o <<x>> \o SubSeq(seq, k + 1, Len(seq))

\* a.o relocates its two words and b.o its one word to f, which b.o
\* defines; a relocation to u may stand before, between or after them
UndefinedInputs ==
    {[kind |-> "link", layout |-> l,
      a |-> [text |-> 8, syms |-> <<>>, relocs |-> ar],
      b |-> [text |-> 4, syms |-> <<Symbol("f", 0, ".text", TRUE)>>, relocs |-> br]] :
        l \in Layouts,
        ar \in UNION {{<<RelocTo("f", 0, t1), RelocTo("f", 4, t2)>>}
                        \union {InsertAt(<<RelocTo("f", 0, t1), RelocTo("f", 4, t2)>>,
                                         k, RelocTo("u", uo, ut)) :
                                    k \in 0..2, uo \in {0, 4}, ut \in {"rel24", "abs32"}} :
                      t1 \in {"rel24", "abs32"}, t2 \in {"rel24", "abs32"}},
        br \in UNION {{<<RelocTo("f", 0, t3)>>,
                        <<RelocTo("u", 0, t3), RelocTo("f", 0, t3)>>,
                        <<RelocTo("f", 0, t3), RelocTo("u", 0, "rel24")>>} :
                      t3 \in {"rel24", "abs32"}}}

\* each object has one word of .text with an abs32 relocation to f on it,
\* and defines f as a local or a global, in a section it has or in .bss,
\* which it has not, or not at all; the second object is b.o or another a.o
ResolveInputs ==
    {[kind |-> "link", layout |-> l, bfile |-> bf,
      a |-> [text |-> 4, syms |-> as, relocs |-> <<RelocTo("f", 0, "abs32")>>],
      b |-> [text |-> 4, syms |-> bs, relocs |-> <<RelocTo("f", 0, "abs32")>>]] :
        l \in Layouts, bf \in {"a.o", "b.o"},
        as \in {<<>>} \union {<<Symbol("f", 0, sec, g)>> :
                                sec \in {".text", ".data", ".bss"}, g \in BOOLEAN},
        bs \in {<<>>} \union {<<Symbol("f", 0, sec, g)>> :
                                sec \in {".text", ".data", ".bss"}, g \in BOOLEAN}}

\* the filename of the second object of an input
second_filename(in) == IF "bfile" \in DOMAIN in THEN in.bfile ELSE "b.o"

\* Linker.__init__, then add_object_file for a.o and b.o of an input
InitLinkOn(inputs) ==
    /\ input \in inputs
    /\ tool = "link"
    /\ pc = "merge_sections"
    /\ memory_layout = input.layout
    /\ object_files = <<ObjectOf("a.o", 1, <<1, 2, 3, 4>>, input.a),
                        ObjectOf(second_filename(input), 2, <<5, 6, 7, 8>>, input.b)>>
    /\ sections = empty_sections
    /\ global_symbols = <<>>
    /\ console = <<>>
    /\ obj_no = 1
    /\ rel_no = 1
    /\ source_lines = <<>>
    /\ line_no = 1
    /\ address = 0
    /\ symbols = <<>>
    /\ instructions = <<>>
    /\ machine_code = <<>>
    /\ errors = <<>>
    /\ listing = <<>>
    /\ reassembled = <<>>

InitLink == InitLinkOn(MergeInputs \union RelocInputs)

InitUndefined == InitLinkOn(UndefinedInputs)

InitResolve == InitLinkOn(ResolveInputs)

NextLink ==
    \/ MergeObject
    \/ MergeEnd
    \/ AssignAddresses
    \/ ApplyRelocation
    \/ NextObject
    \/ ApplyEnd

\* the linker on two objects
SpecLink == InitLink /\ [][NextLink]_vars

\* the linker on objects with relocations to a symbol nobody defines
SpecUndefined == InitUndefined /\ [][NextLink]_vars

\* the linker on objects that each define f, or do not, and relocate to it
SpecResolve == InitResolve /\ [][NextLink]_vars

----------------------------------------------------------------------------
(* disassembler.py: disassemble_file on a binary file of one word, with no *)
(* symbol map and base address 0                                           *)

\* bits 31..16 of the words: three conditions, every value of bits 27..24,
\* some values of bits 23..20 and of bits 19..16
HighLimbs ==
    {c * 2^12 + k * 2^8 + f * 2^4 + r :
        c \in {0, 14, 15}, k \in 0..15, f \in {0, 1, 2, 4, 8, 11}, r \in {0, 1, 15}}

\* bits 15..0 of the words
LowLimbs == {0, 144, 145, 240, 914, 3984, 4099, 32768, 65535}

\* disassemble_file's loop body for word number line_no of the file
DisassembleFile ==
    /\ tool = "disasm" /\ pc = "disassemble_file" /\ line_no <= Len(machine_code)
    /\ listing' = Append(listing,
                         disassemble_instruction(machine_code[line_no],
                                                 4 * (line_no - 1), <<>>))
    /\ line_no' = line_no + 1
    /\ UNCHANGED link_vars
    /\ UNCHANGED <<input, tool, pc, source_lines, address, symbols, instructions,
                   machine_code, errors, reassembled>>

\* disassemble_file's loop ends
DisassembleFileEnd ==
    /\ tool = "disasm" /\ pc = "disassemble_file" /\ line_no > Len(machine_code)
    /\ pc' = "listed"
    /\ UNCHANGED link_vars
    /\ UNCHANGED <<input, tool, line_no, source_lines, address, symbols, instructions,
                   machine_code, errors, listing, reassembled>>

\* ARM7Disassembler(), then disassemble_file on a file holding one word
InitDisasm ==
    /\ input \in {[kind |-> "word", word |-> Big(h, l)] : h \in HighLimbs, l \in LowLimbs}
    /\ tool = "disasm"
    /\ pc = "disassemble_file"
    /\ machine_code = <<input.word>>
    /\ source_lines = <<>>
    /\ line_no = 1
    /\ address = 0
    /\ symbols = <<>>
    /\ instructions = <<>>
    /\ errors = <<>>
    /\ listing = <<>>
    /\ reassembled = <<>>
    /\ memory_layout = default_layout
    /\ object_files = <<>>
    /\ sections = empty_sections
    /\ global_symbols = <<>>
    /\ console = <<>>
    /\ obj_no = 1
    /\ rel_no = 1

NextDisasm ==
    \/ DisassembleFile
    \/ DisassembleFileEnd

\* the disassembler on one-word files
SpecDisasm == InitDisasm /\ [][NextDisasm]_vars

----------------------------------------------------------------------------
(* properties of the assembler *)

\* assemble has returned
Assembled == tool = "asm" /\ pc \in {"assembled", "listed", "done"}

\* the data-processing word with the fields given: bits 31..16 and 15..0
DPWord(cond, i, opcode, s, rn, rd, low) ==
    Big(cond * 2^12 + i * 2^9 + opcode * 2^5 + s * 2^4 + rn, rd * 2^12 + low)

\* the load/store word with P = U = 1, W = 0, I = 0
MemWord(cond, b, l, rn, rd, offset) ==
    Big(cond * 2^12 + 2^10 + 2^8 + 2^7 + b * 2^6 + l * 2^4 + rn, rd * 2^12 + offset)

\* the branch word with the 24-bit offset field given
BranchWord(cond, link, field) ==
    Big(cond * 2^12 + 5 * 2^9 + link * 2^8 + field \div 2^16, field % 2^16)

\* an input without condition or S suffix
Plain(in) == in.cond = 14 /\ in.s = 0

\* C1: a data-processing line whose operand 2 is an immediate v in 0..255
\* assembles to a word with bit 25 set, bits 27..26 clear and bits 11..0 = v;
\* MOV R0, #5 gives 0xE3A00005 and CMP R4, #1 gives 0xE3540001
C1_ImmediateSetsIBit ==
    (Assembled /\ input.kind = "dp" /\ input.imm /\ input.op2 <= 255 /\ Plain(input))
    => /\ Len(machine_code) = 1
       /\ (machine_code[1][1] \div 2^9) % 2 = 1
       /\ (machine_code[1][1] \div 2^10) % 4 = 0
       /\ machine_code[1][2] % 2^12 = input.op2
       /\ (input.op = 13 /\ input.rd = 0 /\ input.op2 = 5)
            => machine_code[1] = Big(58272, 5)

\* C2: OP Rd, Rn, Rm with bare registers and no suffix assembles to
\* (14<<28) | (opcode<<21) | (Rn<<16) | (Rd<<12) | Rm
C2_ThreeRegisterWord ==
    (Assembled /\ input.kind = "dp" /\ ~input.imm /\ input.op \in ThreeOps /\ Plain(input))
    => /\ machine_code = <<DPWord(14, 0, input.op, 0, input.rn, input.rd, input.op2)>>
       /\ errors = <<>>

\* ADD R1, R2, R3 has been assembled to 0xE0821003
C2_Witness ==
    /\ Assembled /\ input.kind = "dp" /\ ~input.imm /\ Plain(input)
    /\ input.op = 4 /\ input.rd = 1 /\ input.rn = 2 /\ input.op2 = 3
    /\ machine_code = <<Big(57474, 4099)>>

\* C3: M Rd, [Rn, #imm] with 0 <= imm <= 4095 assembles to the load/store
\* word with bits 11..0 = imm, Rn, Rd, P = U = 1, W = 0, I = 0, L for loads
\* and B for byte forms; M Rd, [Rn] gives offset 0
C3_LoadStoreOffset ==
    (Assembled /\ input.kind = "mem")
    => machine_code = <<MemWord(14, IF input.m \in {3, 4} THEN 1 ELSE 0,
                                IF input.m \in {1, 3} THEN 1 ELSE 0,
                                input.rn, input.rd,
                                IF input.offset < 0 THEN 0 ELSE input.offset)>>

\* the lines of a branch program that hold an instruction
BranchInstrLine(in, i) == i # in.t \/ in.attached \/ i = in.a

\* the address pass 1 gives line i of a branch program: four times the
\* number of instruction lines before it
BranchAddr(in, i) == 4 * Cardinality({j \in 1..(i - 1) : BranchInstrLine(in, j)})

\* a branch program whose branch exists and whose label is defined
Resolved(in) == in.kind = "branch" /\ in.a <= in.n /\ in.t >= 1 /\ in.t <= in.n

\* C4: a B/BL at address A to a label defined in the same source, before or
\* after the branch, at address T assembles to cond | 101 | L | field with
\* field = ((T - A - 8) >> 2) & 0xFFFFFF
C4_BranchWord ==
    (Assembled /\ Resolved(input))
    => /\ Len(machine_code) = BranchAddr(input, input.n + 1) \div 4
       /\ machine_code[BranchAddr(input, input.a) \div 4 + 1]
            = BranchWord(14, input.link,
                         ((BranchAddr(input, input.t) - BranchAddr(input, input.a) - 8)
                            \div 4) % 2^24)

\* loop: ADD R0,R0,#1 followed by B loop has been assembled, the second
\* word being 0xEAFFFFFD
C4_Witness ==
    /\ Assembled /\ Resolved(input)
    /\ input.n = 2 /\ input.t = 1 /\ input.a = 2 /\ input.attached /\ input.link = 0
    /\ machine_code[2] = Big(60159, 65533)

\* C5: the target the disassembler computes from the word of a B/BL at
\* address A to a label at address T, below or above A, is T
C5_BranchOffsetLaw ==
    (Assembled /\ Resolved(input))
    => branch_target(machine_code[BranchAddr(input, input.a) \div 4 + 1],
                     BranchAddr(input, input.a))
         = ToBig(BranchAddr(input, input.t))

\* C6: the text the disassembler gives for the word of a supported line,
\* assembled again at the same address, yields the same word
C6_RoundTrip ==
    (tool = "asm" /\ pc = "done" /\ errors = <<>> /\ input.kind \in {"dp", "mem"}
        /\ (input.kind = "dp" /\ input.imm => input.op2 <= 255))
    => /\ Len(reassembled) = Len(machine_code)
       /\ \A i \in 1..Len(machine_code) : reassembled[i].word = machine_code[i]

\* the text pass 1 records for line i of a layout program
LayoutText(kind) ==
    CASE kind = "labelled" -> Filler
      [] kind = "dotted" -> <<".", "w", "o", "r", "d", " ", "5">>
      [] kind = "instr" -> <<"M","O","V"," ","R","1",","," ","R","2">>
      [] kind = "unknown" -> <<"N", "O", "P">>

\* the instruction lines of a layout program among its first i lines
InstrLines(q, i) == {j \in 1..i : q[j] \in InstrKinds}

\* the labels a layout program defines, each with the line it stands on
LayoutLabels(q) ==
    {<<LabelAt(i), i>> : i \in {j \in 1..Len(q) : q[j] \in {"label", "labelled", "dotted"}}}
    \union {<< <<"x">>, i>> : i \in {j \in 1..Len(q) : q[j] = "same_label"}}

\* C7: after pass 1 the instruction list holds one entry per line that,
\* its comment stripped, is not blank, is no directive (does not start with
\* ".") and is not a label alone, in source order, entry k (from 0) at
\* address 4k, and every label maps to the address of the next recorded
\* instruction at or after its line
C7_AddressStability ==
    (tool = "asm" /\ pc \notin {"pass1", "raised"} /\ input.kind = "layout")
    => LET q == input.lines
       IN  /\ Len(instructions) = Cardinality(InstrLines(q, Len(q)))
           /\ \A j \in InstrLines(q, Len(q)) :
                LET k == Cardinality(InstrLines(q, j))
                IN  /\ instructions[k].address = 4 * (k - 1)
                    /\ instructions[k].line = LayoutText(q[j])
           /\ DOMAIN symbols = {l[1] : l \in LayoutLabels(q)}
           /\ \A l \in LayoutLabels(q) :
                /\ symbols[l[1]] = 4 * Cardinality(InstrLines(q, l[2] - 1))
                /\ \A j \in InstrLines(q, Len(q)) :
                     (j >= l[2] /\ InstrLines(q, j - 1) \subseteq InstrLines(q, l[2] - 1))
                     => symbols[l[1]] = instructions[Cardinality(InstrLines(q, j))].address

\* pass 1 is over for: an instruction, a label alone, a directive, a
\* labelled instruction; the two labels map to address 4
C7_Witness ==
    /\ tool = "asm" /\ pc = "pass2" /\ input.kind = "layout"
    /\ Len(input.lines) = MaxLines
    /\ input.lines[1] = "instr" /\ input.lines[2] = "label" /\ input.lines[3] = "labelled"
    /\ symbols[LabelAt(2)] = 4 /\ symbols[LabelAt(3)] = 4
    /\ Len(instructions) >= 2 /\ instructions[2].address = 4

\* C10: a data-processing line whose immediate does not fit 12 bits
\* (value >= 4096) is reported in the error list and yields the word 0
C10_ImmediateOverflow ==
    (Assembled /\ input.kind = "dp" /\ input.imm /\ input.op2 >= 4096)
    => /\ errors # <<>>
       /\ machine_code = <<Big(0, 0)>>

----------------------------------------------------------------------------
(* properties of the linker *)

\* the .text bytes of an object of that shape
TextOf(first, shape) == IF shape.text >= 0 THEN Bytes(first, shape.text) ELSE <<>>

\* merge_sections and assign_addresses have returned
Assigned == tool = "link" /\ pc \in {"apply_relocations", "linked", "raised"}

\* no relocation has been applied yet
Unpatched == pc = "apply_relocations" /\ obj_no = 1 /\ rel_no = 1

\* the merged .text is a.o's bytes followed by b.o's
TextAdditive ==
    /\ Len(sections[".text"].data) = Len(TextOf(1, input.a)) + Len(TextOf(2, input.b))
    /\ sections[".text"].data = TextOf(1, input.a) \o TextOf(2, input.b)

\* b.o's symbol sym is in the table, resolved to text.base + |a.o's .text|
\* + its original value
ResolvedAfterA(sym) ==
    /\ symbol_key("b.o", sym) \in DOMAIN global_symbols
    /\ global_symbols[symbol_key("b.o", sym)].resolved
    /\ global_symbols[symbol_key("b.o", sym)].resolved_addr
         = input.layout[".text"] + Len(TextOf(1, input.a)) + sym.value

\* C8: for two objects A, B linked in that order, after merge_sections and
\* assign_addresses the merged .text is A's bytes followed by B's, of length
\* |A.text| + |B.text|, and every symbol B defines with section .text has
\* resolved address text.base + |A.text| + its original value
C8_MergeAdditivity ==
    Assigned =>
        /\ Unpatched => TextAdditive
        /\ \A i \in 1..Len(input.b.syms) :
             input.b.syms[i].section = ".text" => ResolvedAfterA(input.b.syms[i])

\* C8, for the symbols of an object that has a .text section: the merged
\* .text is A's bytes followed by B's, and every symbol B defines with
\* section .text, B having a .text section, has resolved address
\* text.base + |A.text| + its original value
C8_MergeAdditivityWithSection ==
    Assigned =>
        /\ Unpatched => TextAdditive
        /\ \A i \in 1..Len(input.b.syms) :
             (input.b.syms[i].section = ".text" /\ input.b.text >= 0)
             => ResolvedAfterA(input.b.syms[i])

\* a.o has 8 bytes of .text, b.o has 4 and defines f = 4 in .text, .text is
\* based at 0x8000: the merged .text has 12 bytes and f is at 0x800C
C8_Witness ==
    /\ Assigned /\ Unpatched
    /\ input.a.text = 8 /\ input.b.text = 4 /\ input.layout[".text"] = 32768
    /\ input.b.syms = <<Symbol("f", 4, ".text", TRUE)>>
    /\ Len(sections[".text"].data) = 12
    /\ global_symbols["f"].resolved_addr = 32780

\* the relocation apply_relocations is at
ThisReloc == object_files[obj_no].relocations[rel_no]

\* the key its target is found under, in a one-element sequence
ThisTarget == lookup(global_symbols, object_files[obj_no].filename, ThisReloc.symbol)

\* the step applies a rel24 relocation whose target is found, at a position
\* of its section that holds a word
Rel24Step ==
    /\ ApplyRelocation
    /\ ThisReloc.rel_type = "rel24"
    /\ ThisTarget # <<>>
    /\ ThisReloc.section \in DOMAIN sections
    /\ ThisReloc.offset + 4 <= Len(sections[ThisReloc.section].data)

\* the 24-bit field for a branch at address current to target
Field24(target, current) == ((target - current - 8) \div 4) % 2^24

\* data with the three low bytes of the word at offset o replaced by field
Patched(data, o, field) ==
    [i \in 1..Len(data) |->
        IF i = o + 1 THEN field % 256
        ELSE IF i = o + 2 THEN (field \div 256) % 256
        ELSE IF i = o + 3 THEN field \div 65536
        ELSE data[i]]

\* what the step leaves: the word patched, everything else as it was
Rel24Effect ==
    LET sec == sections[ThisReloc.section]
        T == global_symbols[ThisTarget[1]].resolved_addr
        A == sec.base_addr + ThisReloc.offset
    IN  /\ pc' = pc
        /\ DOMAIN sections' = DOMAIN sections
        /\ sections'[ThisReloc.section]
             = [sec EXCEPT !.data = Patched(sec.data, ThisReloc.offset, Field24(T, A))]
        /\ \A n \in DOMAIN sections \ {ThisReloc.section} : sections'[n] = sections[n]
        /\ Field24(T, A) = branch_offset(T, A)

\* C9: a rel24 relocation at merged offset o of a section based at b, its
\* target resolved to T, replaces the word w there by
\* (w & 0xFF000000) | (((T - (b + o) - 8) >> 2) & 0xFFFFFF): bits 31..24
\* stay, every other byte of every section stays, and the field is the one
\* the assembler encodes for a branch at b + o to T
C9_Rel24Relocation == [][Rel24Step => Rel24Effect]_vars

\* a.o's relocation at offset 4 of .text to f, which b.o defines at the
\* start of its .text, has been applied: B 0xFFFFFE has become B 0xFFFFFF
C9_Witness ==
    /\ tool = "link" /\ pc = "apply_relocations" /\ obj_no = 1 /\ rel_no = 2
    /\ input.a.text = 8
    /\ input.a.relocs = <<[offset |-> 4, symbol |-> "f", rel_type |-> "rel24",
                           section |-> ".text"]>>
    /\ input.b.syms = <<Symbol("f", 0, ".text", TRUE)>>
    /\ SubSeq(sections[".text"].data, 5, 8) = <<255, 255, 255, 234>>

----------------------------------------------------------------------------
(* properties of the assembler's error handling *)

\* the kinds of line with an unknown mnemonic or an operand that is none
Faults == {"unknown", "bad_reg", "loose_reg", "no_operand", "bad_imm"}

\* the word of line i of the faulty program q when the line is well-formed;
\* it depends on no other line's text, only on the addresses 4(i - 1)
SoundWord(q, i) ==
    CASE q[i] = "ok" -> Big(57760, 4098)
      [] q[i] = "target" -> Big(57472, 1)
      [] q[i] = "branch" ->
            IF q[1] = "target"
            THEN BranchWord(14, 0, ((0 - 4 * (i - 1) - 8) \div 4) % 2^24)
            ELSE BranchWord(14, 0, 0)

\* C11: for a source without duplicate labels the output has one word per
\* recorded instruction, in order; a line with an unknown mnemonic or a
\* malformed operand adds one error and the word 0, and the words and
\* addresses of the other lines are what they are when that line is valid
C11_ErrorsKeepAddresses ==
    (Assembled /\ input.kind = "faulty")
    => LET q == input.lines
       IN  /\ Len(machine_code) = Len(instructions)
           /\ Len(instructions) = Len(q)
           /\ Len(errors) = Cardinality({i \in 1..Len(q) : q[i] \in Faults})
           /\ \A i \in 1..Len(q) :
                /\ instructions[i].address = 4 * (i - 1)
                /\ machine_code[i] = IF q[i] \in Faults THEN Big(0, 0)
                                     ELSE SoundWord(q, i)

\* the lines of a layout program that define the label x
Repeats(q) == {j \in 1..Len(q) : q[j] = "same_label"}

\* C12: when a source defines a label twice the assembler adds a
\* duplicate_label error to the error list, the symbol table keeps one
\* entry for the label, and assembly goes on: every well-formed
\* instruction line still yields its word
C12_DuplicateLabelReported ==
    (tool = "asm" /\ input.kind = "layout" /\ Cardinality(Repeats(input.lines)) >= 2)
    => /\ pc # "raised"
       /\ Assembled =>
            /\ errors # <<>>
            /\ <<"x">> \in DOMAIN symbols
            /\ Len(machine_code) = Cardinality(InstrLines(input.lines, Len(input.lines)))
            /\ \A j \in InstrLines(input.lines, Len(input.lines)) :
                 input.lines[j] = "instr"
                 => machine_code[Cardinality(InstrLines(input.lines, j))] = Big(57760, 4098)

----------------------------------------------------------------------------
(* properties of the linker's relocation handling *)

\* data with the four bytes at offset o replaced by the address T
Abs32Patched(data, o, T) ==
    [i \in 1..Len(data) |->
        IF i \in (o + 1)..(o + 4) THEN (T \div 256^(i - o - 1)) % 256 ELSE data[i]]

\* data after the relocation r of an object whose .text starts at shift in
\* the merged .text based at b, r's target f being at T; a relocation to
\* another name changes nothing
PatchOne(data, r, shift, T, b) ==
    IF r.symbol # "f" THEN data
    ELSE IF r.rel_type = "rel24"
    THEN Patched(data, r.offset + shift, Field24(T, b + r.offset + shift))
    ELSE Abs32Patched(data, r.offset + shift, T)

RECURSIVE PatchAll(_, _, _, _, _, _)
\* data after the relocations k.. of the list
PatchAll(data, relocs, k, shift, T, b) ==
    IF k > Len(relocs) THEN data
    ELSE PatchAll(PatchOne(data, relocs[k], shift, T, b), relocs, k + 1, shift, T, b)

\* the relocations to u of both objects
UndefinedRelocs(in) ==
    {<<"a", i>> : i \in {j \in 1..Len(in.a.relocs) : in.a.relocs[j].symbol = "u"}}
    \union {<<"b", i>> : i \in {j \in 1..Len(in.b.relocs) : in.b.relocs[j].symbol = "u"}}

\* C13: a relocation whose target is neither a global nor a local of its
\* object is reported, changes no section byte, and every other relocation
\* of every object, before and after it, is applied as if it were absent:
\* with or without relocations to u, the linked .text is the merged one
\* with the relocations to f applied in order
C13_UndefinedSymbolSkipped ==
    tool = "link"
    => /\ pc # "raised"
       /\ pc = "linked" =>
            /\ Len(console) = Cardinality(UndefinedRelocs(input))
            /\ \A i \in 1..Len(console) : console[i] = "Error: Undefined symbol 'u'"
            /\ sections[".text"].data
                 = PatchAll(PatchAll(Bytes(1, 8) \o Bytes(2, 4), input.a.relocs, 1, 0,
                                     input.layout[".text"] + 8, input.layout[".text"]),
                            input.b.relocs, 1, 8,
                            input.layout[".text"] + 8, input.layout[".text"])
            /\ sections[".data"].data = <<1, 2, 3, 4, 5, 6, 7, 8>>

\* linking is over for: a.o with a rel24 relocation at 0, one to u at 4, a
\* rel24 one at 4; b.o with one to u and an abs32 one at 0; f is at 8
C13_Witness ==
    /\ tool = "link" /\ pc = "linked"
    /\ input.layout[".text"] = 0
    /\ input.a.relocs = <<RelocTo("f", 0, "rel24"), RelocTo("u", 4, "abs32"),
                          RelocTo("f", 4, "rel24")>>
    /\ input.b.relocs = <<RelocTo("u", 0, "abs32"), RelocTo("f", 0, "abs32")>>
    /\ Len(console) = 2
    /\ sections[".text"].data = <<0, 0, 0, 235, 255, 255, 255, 234, 8, 0, 0, 0>>

----------------------------------------------------------------------------
(* properties of the disassembler *)

\* the classification table, in its order: mask, match, class
ClassRows ==
    << <<Big(4032, 240), Big(0, 144), "multiply">>,
       <<Big(3072, 0), Big(0, 0), "data_processing">>,
       <<Big(3072, 0), Big(1024, 0), "load_store">>,
       <<Big(3584, 0), Big(2048, 0), "ldm_stm">>,
       <<Big(3584, 0), Big(2560, 0), "branch">>,
       <<Big(3840, 0), Big(3840, 0), "swi">> >>

\* the rows of the table the word matches
MatchingRows(w) ==
    {i \in 1..Len(ClassRows) : BigAnd(w, ClassRows[i][1]) = ClassRows[i][2]}

\* the class of the first row the word matches, "unknown" when there is none
FirstRow(w) ==
    IF MatchingRows(w) = {} THEN "unknown"
    ELSE ClassRows[CHOOSE i \in MatchingRows(w) :
                      \A j \in MatchingRows(w) : i <= j][3]

\* the text of the word w at address 0 in the format of the class
TextOfClass(class, w) ==
    CASE class = "multiply" -> disasm_multiply(w, COND_CODES[w[1] \div 2^12 + 1])
      [] class = "data_processing"
            -> disasm_data_processing(w, COND_CODES[w[1] \div 2^12 + 1])
      [] class = "load_store" -> disasm_load_store(w, COND_CODES[w[1] \div 2^12 + 1])
      [] class = "ldm_stm" -> disasm_ldm_stm(w, COND_CODES[w[1] \div 2^12 + 1])
      [] class = "branch" -> disasm_branch(w, COND_CODES[w[1] \div 2^12 + 1], 0, <<>>)
      [] class = "swi" -> disasm_swi(w, COND_CODES[w[1] \div 2^12 + 1])
      [] class = "unknown" -> <<"U","N","K","N","O","W","N"," "," ","0","x">>
                              \o ZeroPad(HexOf(w), 8)

\* C14: for every 32-bit word disassemble_instruction returns a text, in
\* the format of the first row of the classification table the word
\* matches (multiply before data processing, then single load/store, block
\* load/store, branch, SWI), and UNKNOWN 0x<hex> exactly for the words that
\* match no row
C14_FirstMatchingRow ==
    (tool = "disasm" /\ pc = "listed")
    => /\ Len(listing) = 1
       /\ listing[1] = TextOfClass(FirstRow(input.word), input.word)
       /\ StartsWith(listing[1], <<"U","N","K","N","O","W","N">>)
            <=> MatchingRows(input.word) = {}

\* 0xE0010392 matches the multiply row and the data-processing row and has
\* been listed as MUL R1, R2, R3
C14_Witness ==
    /\ tool = "disasm" /\ pc = "listed"
    /\ input.word = Big(57345, 914)
    /\ MatchingRows(input.word) = {1, 2}
    /\ Join(listing[1]) = "MUL R1, R2, R3"

\* C15: every value of the list assemble returns is an unsigned 32-bit
\* word, 0 <= w < 2^32, whatever immediate literal or offset the lines hold
C15_WordsUnsigned32 ==
    (tool = "asm" /\ pc \in {"assembled", "listed", "done"})
    => \A i \in 1..Len(machine_code) :
          /\ machine_code[i][1] \in 0..(Limb - 1)
          /\ machine_code[i][2] \in 0..(Limb - 1)

\* C16: the mnemonic M || C || S, for each of the 16 data-processing
\* mnemonics M, each condition suffix C or none, and an optional trailing S,
\* is encoded as the data-processing word with the opcode of M, the
\* condition of C (AL when absent) and the S bit set exactly when the S is
\* written (always for TST, TEQ, CMP, CMN), and no error is recorded
C16_MnemonicDecomposition ==
    (Assembled /\ input.kind = "dp" /\ input.order = "CS" /\ ~input.imm)
    => /\ errors = <<>>
       /\ machine_code =
            <<DPWord(input.cond, 0, input.op,
                     IF input.op \in TestOps THEN 1 ELSE input.s,
                     IF input.op \in MoveOps THEN 0 ELSE input.rn,
                     IF input.op \in TestOps THEN 0 ELSE input.rd,
                     input.op2)>>

----------------------------------------------------------------------------
(* properties of the linker's symbol resolution *)

\* the object o ("a" or "b") of the input defines f with that visibility;
\* with entered_only, only in a section the object has a record of
Defines(in, o, is_global, entered_only) ==
    /\ in[o].syms # <<>>
    /\ in[o].syms[1].is_global = is_global
    /\ entered_only => in[o].syms[1].section # ".bss"

\* the address of f as the object o defines it: the base of its section,
\* plus the 4 bytes of a.o before b.o's contribution (.bss holds nothing)
DefinedAt(in, o) ==
    in.layout[in[o].syms[1].section]
        + (IF o = "b" /\ in[o].syms[1].section # ".bss" THEN 4 ELSE 0)
        + in[o].syms[1].value

\* what a relocation to f in the object o resolves to, in a one-element
\* sequence: a global definition if an object has one (the later object's if
\* both have), else o's own local definition, else nothing
TargetOf(in, o, entered_only) ==
    IF Defines(in, "b", TRUE, entered_only) THEN <<DefinedAt(in, "b")>>
    ELSE IF Defines(in, "a", TRUE, entered_only) THEN <<DefinedAt(in, "a")>>
    ELSE IF Defines(in, o, FALSE, entered_only) THEN <<DefinedAt(in, o)>>
    ELSE <<>>

\* the word of the object o in the linked .text: the target's address, or
\* the word as it was when there is no target
WordOf(in, o, entered_only) ==
    IF TargetOf(in, o, entered_only) = <<>> THEN Bytes(IF o = "a" THEN 1 ELSE 2, 4)
    ELSE Abs32Patched(<<0, 0, 0, 0>>, 0, TargetOf(in, o, entered_only)[1])

\* linking is over, each relocation patched with the target it has by that
\* rule and reported when it has none
ResolvedByRule(in, entered_only) ==
    /\ sections[".text"].data = WordOf(in, "a", entered_only) \o WordOf(in, "b", entered_only)
    /\ Len(SelectSeq(console, LAMBDA m : m = "Error: Undefined symbol 'f'"))
         = Cardinality({o \in {"a", "b"} : TargetOf(in, o, entered_only) = <<>>})

\* C17 as stated: a relocation in object O to s resolves to the global s if
\* any object defines one, otherwise to the local s of O itself, and never
\* to a local of another object
C17_ResolutionOrder ==
    (tool = "link" /\ pc = "linked") => ResolvedByRule(input, FALSE)

\* C17, amended: for objects with distinct filenames, a relocation in O to s
\* resolves to the global s if an object defines one in a section that
\* object has a record of, otherwise to the local s that O defines in a
\* section O has a record of, and never to a local of another object
C17_ResolutionOrderDistinctFiles ==
    (tool = "link" /\ pc = "linked" /\ input.bfile # "a.o")
    => ResolvedByRule(input, TRUE)

\* a.o and b.o each define a local f at the start of their .text, and each
\* relocation has been given the address of its own object's f
C17_Witness ==
    /\ tool = "link" /\ pc = "linked" /\ input.bfile = "b.o"
    /\ input.layout[".text"] = 32768
    /\ input.a.syms = <<Symbol("f", 0, ".text", FALSE)>>
    /\ input.b.syms = <<Symbol("f", 0, ".text", FALSE)>>
    /\ sections[".text"].data = <<0, 128, 0, 0, 4, 128, 0, 0>>
    /\ console = <<>>

\* the linked state when both objects define a global f: one warning, the
\* table's f is b.o's definition with b.o's contribution offset 4 added,
\* and both relocations hold its resolved address
LaterGlobalWins(in) ==
    /\ console = <<"Warning: Duplicate global symbol 'f'">>
    /\ DOMAIN global_symbols = {"f"}
    /\ global_symbols["f"].section = in.b.syms[1].section
    /\ global_symbols["f"].is_global
    /\ global_symbols["f"].value = in.b.syms[1].value + 4
    /\ global_symbols["f"].resolved_addr = in.layout[in.b.syms[1].section] + 4
    /\ sections[".text"].data
         = Abs32Patched(<<0, 0, 0, 0>>, 0, in.layout[in.b.syms[1].section] + 4)
           \o Abs32Patched(<<0, 0, 0, 0>>, 0, in.layout[in.b.syms[1].section] + 4)

\* C18 as stated: when two objects define a global of the same name,
\* linking does not abort, a warning is issued, the table holds the later
\* object's definition with its contribution offset added, and every
\* relocation to the name is patched with that definition's address
C18_LaterGlobalWins ==
    /\ tool = "link" => pc # "raised"
    /\ (tool = "link" /\ pc = "linked"
        /\ Defines(input, "a", TRUE, FALSE) /\ Defines(input, "b", TRUE, FALSE))
       => LaterGlobalWins(input)

\* C18, amended: the same, when each of the two objects defines the global
\* in a section it has a record of
C18_LaterEnteredGlobalWins ==
    /\ tool = "link" => pc # "raised"
    /\ (tool = "link" /\ pc = "linked"
        /\ Defines(input, "a", TRUE, TRUE) /\ Defines(input, "b", TRUE, TRUE))
       => LaterGlobalWins(input)

\* a.o defines the global f in .text and b.o in .data; linking is over with
\* the warning, and both relocations hold 0x10004
C18_Witness ==
    /\ tool = "link" /\ pc = "linked"
    /\ input.layout[".data"] = 65536
    /\ input.a.syms = <<Symbol("f", 0, ".text", TRUE)>>
    /\ input.b.syms = <<Symbol("f", 0, ".data", TRUE)>>
    /\ console = <<"Warning: Duplicate global symbol 'f'">>
    /\ sections[".text"].data = <<4, 0, 1, 0, 4, 0, 1, 0>>

----------------------------------------------------------------------------
(* properties of the linker's sections *)

\* C19: once the sections are merged, and on through assign_addresses and
\* apply_relocations, the size of every merged section is the length of
\* its data, whatever the offsets of the relocations: apply_relocations
\* overwrites bytes and never changes the length of a section's data
C19_SizeIsLength ==
    (tool = "link" /\ pc \in {"assign_addresses", "apply_relocations", "linked"})
    => \A n \in DOMAIN sections : sections[n].size = Len(sections[n].data)

====
